---- MODULE Spec2Model ----
(***************************************************************************)
(* FluentQueryHelper (planning-poker-fluent): the helper's safe CRUD and   *)
(* query operations over one table of the GlideQuery backend, and the      *)
(* chainable query descriptor the helper builds its queries with.          *)
(***************************************************************************)
EXTENDS Integers, Sequences, FiniteSets, TLC

\* ---------------------------------------------------------------- bounds
MaxKeys == 2        \* sys_id values the backend can hand out
MaxDescs == 4       \* descriptors one query expression keeps alive
MaxLimit == 2       \* largest argument given to limit(n)
MaxRows == 5        \* rows of a table that is counted
MaxHops == 2        \* '.' hops of a field path
MaxTables == 2      \* table files the validator is given
MaxFields == 2      \* fields of one table definition
MaxRuns == 2        \* runs of the seed script
MaxFails == 1       \* inserts of the seed script that fail
MaxTableFiles == 7  \* table files the verification script finds
MaxStories == 1     \* stories of the planning session
MaxVoters == 2      \* participants who vote
MaxVotes == 3       \* rows of the planning_vote table

\* ---------------------------------------------------------- value domains
Keys == 1..MaxKeys
NoKey == 0                       \* a missing (falsy) sysId, and sysId: null
NoTable == ""                    \* a missing (falsy) table name
TableName == "session"
TableArgs == {NoTable, TableName}

StatusVals == {"active", "done"}
VoteVals == {0, 1}
Unset == "unset"                 \* key absent from a data object (status)
UnsetN == -1                     \* key absent from a data object (votes)
NoData == [isNull |-> TRUE, status |-> Unset, votes |-> UnsetN]
DataObjs == [isNull : {FALSE}, status : StatusVals \cup {Unset}, votes : VoteVals \cup {UnsetN}]
DataArgs == {NoData} \cup DataObjs

Rows == [sys_id : Keys, status : StatusVals, votes : VoteVals]

\* error strings of the result objects; NoError is error: null
NoError == "null"
ErrMissingInsert == "Missing table or data"
ErrMissingUpdate == "Missing table, sysId, or data"
ErrMissingDelete == "Missing table or sysId"
ErrNotFound == "Record not found"
ErrBackend == "backend exception message"
ErrEmptyOptional == "orElseThrow on empty Optional"

VARIABLES db, last, pend, descs, berr, val, seed, res, track, ver, poll
vars == <<db, last, pend, descs, berr, val, seed, res, track, ver, poll>>
\* the state of the validator, of the seed script and of the schema registry,
\* and whether a read records the call made before it
tools == <<val, seed, res, track, ver, poll>>

\* ------------------------------------------------------- stored table
\* t = [rows, issued]: the rows of the table and the number of sys_ids the
\* backend has generated so far (a sys_id is never handed out twice)
EmptyTable == [rows |-> {}, issued |-> 0]
KeysOf(t) == {r.sys_id : r \in t.rows}
RowOf(t, k) == CHOOSE r \in t.rows : r.sys_id = k
NewKey(t) == t.issued + 1

\* --------------------------------------------- query descriptor (builder)
NoLimit == 0                     \* the descriptor's "unbounded" limit
NoBuildError == "none"
AggregateConflictError == "AggregateConflictError"

\* from(table): a fresh descriptor
NewQuery(table) ==
  [table |-> table, preds |-> <<>>, order |-> <<>>, lim |-> NoLimit,
   proj |-> <<>>, aggs |-> <<>>]

Built(d) == [err |-> NoBuildError, d |-> d]
Rejected(d, e) == [err |-> e, d |-> d]

\* where(field, value): appends one equality predicate
Where(d, f, v) ==
  Built([d EXCEPT !.preds = Append(@, [field |-> f, value |-> v])])

\* orderBy(field) / orderByDesc(field): appends one sort key
OrderBy(d, f, desc) ==
  Built([d EXCEPT !.order = Append(@, [field |-> f, desc |-> desc])])

\* faulty variant: a second limit call does not replace the bound already set
Limit_KeepsFirst(d, n) ==
  Built(IF d.lim = NoLimit THEN [d EXCEPT !.lim = n] ELSE d)

\* limit(n): sets the bound
Limit(d, n) ==
  Built([d EXCEPT !.lim = n])

\* faulty variant: select does not look at the aggregate specs
Select_NoGuard(d, fields) ==
  Built([d EXCEPT !.proj = fields])

\* select(...fields): sets the explicit projection
Select(d, fields) ==
  IF d.aggs # <<>> THEN Rejected(d, AggregateConflictError)
  ELSE Built([d EXCEPT !.proj = fields])

\* aggregate(fn, field): appends one aggregate spec
Aggregate(d, fn, f) ==
  IF d.proj # <<>> THEN Rejected(d, AggregateConflictError)
  ELSE Built([d EXCEPT !.aggs = Append(@, [fn |-> fn, field |-> f])])

\* faulty variant: the filter loop stops after the first key
ApplyFilters_FirstOnly(d, filters) ==
  IF filters = <<>> THEN d
  ELSE Where(d, Head(filters).field, Head(filters).value).d

\* the helper's filter loop: one where call per key of the filters object
RECURSIVE ApplyFilters(_, _)
ApplyFilters(d, filters) ==
  IF filters = <<>> THEN d
  ELSE ApplyFilters(Where(d, Head(filters).field, Head(filters).value).d,
                    Tail(filters))

\* ------------------------------------------------------ query execution
Matches(r, preds) ==
  \A i \in DOMAIN preds : r[preds[i].field] = preds[i].value

Matching(t, preds) == {r \in t.rows : Matches(r, preds)}

\* r comes before s under the descriptor's sort keys; ties and unordered
\* queries iterate by sys_id
RECURSIVE Before(_, _, _)
Before(r, s, order) ==
  IF order = <<>> THEN r.sys_id < s.sys_id
  ELSE LET o == Head(order)
           a == r[o.field]
           b == s[o.field]
       IN IF a = b THEN Before(r, s, Tail(order))
          ELSE IF o.desc THEN a > b ELSE a < b

RECURSIVE Sorted(_, _)
Sorted(S, order) ==
  IF S = {} THEN <<>>
  ELSE LET first == CHOOSE r \in S : \A s \in S \ {r} : Before(r, s, order)
       IN <<first>> \o Sorted(S \ {first}, order)

Take(sq, n) ==
  IF n = NoLimit \/ Len(sq) <= n THEN sq ELSE SubSeq(sq, 1, n)

FieldSet(fields) == {fields[i] : i \in DOMAIN fields}

\* a selected record carries the selected fields and sys_id
Project(r, fields) ==
  IF fields = <<>> THEN r
  ELSE [f \in FieldSet(fields) \cup {"sys_id"} |-> r[f]]

\* forEach over the built query: filter, order, limit, project
Execute(t, d) ==
  LET sq == Take(Sorted(Matching(t, d.preds), d.order), d.lim)
  IN [i \in DOMAIN sq |-> Project(sq[i], d.proj)]

\* ------------------------------------------------- backend row mutation
DefaultStatus == "active"
DefaultVotes == 0

\* faulty variant: the written votes are lost, the column takes its default
NewRow_DropsVotes(k, data) ==
  [sys_id |-> k,
   status |-> IF data.status = Unset THEN DefaultStatus ELSE data.status,
   votes |-> DefaultVotes]

\* the row the backend stores for insert(data): unset columns take defaults;
\* a scoring value row holds the reference and the value it is given
NewRow(k, data) ==
  IF "scoring_method" \in DOMAIN data
  THEN [sys_id |-> k, scoring_method |-> data.scoring_method,
        value |-> data.value, order |-> data.order]
  ELSE
  [sys_id |-> k,
   status |-> IF data.status = Unset THEN DefaultStatus ELSE data.status,
   votes |-> IF data.votes = UnsetN THEN DefaultVotes ELSE data.votes]

\* the row after update(data): only the keys of data are overwritten
UpdatedRow(r, data) ==
  [sys_id |-> r.sys_id,
   status |-> IF data.status = Unset THEN r.status ELSE data.status,
   votes |-> IF data.votes = UnsetN THEN r.votes ELSE data.votes]

Inserted(t, data) ==
  [rows |-> t.rows \cup {NewRow(NewKey(t), data)}, issued |-> t.issued + 1]
Updated(t, k, data) ==
  [t EXCEPT !.rows = (@ \ {RowOf(t, k)}) \cup {UpdatedRow(RowOf(t, k), data)}]
Deleted(t, k) ==
  [t EXCEPT !.rows = @ \ {RowOf(t, k)}]

\* ------------------------------------------------------ helper outcomes
\* What one helper call hands back and does.  success/error/sysId are the
\* fields of the mutation result objects; rows is the returned record list
\* (a single record or null for getSafe: <<r>> or <<>>); num the returned
\* number; errors: batchInsert's error list; threw: the backend raised an exception during the call; logged:
\* gs.error was called; warned: gs.warn was called; ops: the backend
\* operations issued, in order; db: the table after the call.
Outcome(t) ==
  [success |-> FALSE, error |-> NoError, sysId |-> NoKey, rows |-> <<>>,
   num |-> 0, errors |-> <<>>, threw |-> FALSE, logged |-> FALSE,
   warned |-> FALSE, ops |-> <<>>, desc |-> NewQuery(NoTable), db |-> t]

\* faulty variant: the catch block answers success: true with no error
MutationCaught_ReportsSuccess(t, ops, msg, threw) ==
  [Outcome(t) EXCEPT !.success = TRUE, !.threw = threw, !.logged = TRUE,
                     !.ops = ops]

\* the catch block of a mutation: log, {success: false, error: message}
MutationCaught(t, ops, msg, threw) ==
  [Outcome(t) EXCEPT !.error = msg, !.threw = threw, !.logged = TRUE,
                     !.ops = ops]

\* the catch block of a read: log, return the default (null, [], 0, initial)
ReadCaught(t, ops, d, dflt, threw) ==
  [Outcome(t) EXCEPT !.num = dflt, !.threw = threw, !.logged = TRUE,
                     !.ops = ops, !.desc = d]

\* faulty variant: the guard tests the table only: null data reaches the backend,
\* whose insert throws
InsertSafe_NoDataCheck(t, table, data, fail) ==
  IF table = NoTable
  THEN [Outcome(t) EXCEPT !.error = ErrMissingInsert]
  ELSE IF fail \/ data.isNull
  THEN MutationCaught(t, <<"insert">>, ErrBackend, TRUE)
  ELSE [Outcome(t) EXCEPT !.success = TRUE, !.sysId = NewKey(t),
                          !.ops = <<"insert">>, !.db = Inserted(t, data)]

\* faulty variant: the argument guard answers success: false with error: null
InsertSafe_GuardWithoutError(t, table, data, fail) ==
  IF table = NoTable \/ data.isNull
  THEN Outcome(t)
  ELSE IF fail
  THEN MutationCaught(t, <<"insert">>, ErrBackend, TRUE)
  ELSE [Outcome(t) EXCEPT !.success = TRUE, !.sysId = NewKey(t),
                          !.ops = <<"insert">>, !.db = Inserted(t, data)]

\* insertSafe(table, data); fail: the backend insert throws
InsertSafe(t, table, data, fail) ==
  IF table = NoTable \/ data.isNull
  THEN [Outcome(t) EXCEPT !.error = ErrMissingInsert]
  ELSE IF fail
  THEN MutationCaught(t, <<"insert">>, ErrBackend, TRUE)
  ELSE [Outcome(t) EXCEPT !.success = TRUE, !.sysId = NewKey(t),
                          !.ops = <<"insert">>, !.db = Inserted(t, data)]

\* faulty variant: the existence check is skipped: every valid call goes on to update
UpdateSafeCheck_NoExistenceCheck(t, table, key, data, fail) ==
  IF table = NoTable \/ key = NoKey \/ data.isNull
  THEN [proceed |-> FALSE, out |-> [Outcome(t) EXCEPT !.error = ErrMissingUpdate]]
  ELSE IF fail
  THEN [proceed |-> FALSE, out |-> MutationCaught(t, <<"selectOne">>, ErrBackend, TRUE)]
  ELSE [proceed |-> TRUE, out |-> [Outcome(t) EXCEPT !.ops = <<"selectOne">>]]

\* updateSafe(table, sysId, data) up to and including the existence check;
\* proceed: the check passed and the update is still to be issued
UpdateSafeCheck(t, table, key, data, fail) ==
  IF table = NoTable \/ key = NoKey \/ data.isNull
  THEN [proceed |-> FALSE, out |-> [Outcome(t) EXCEPT !.error = ErrMissingUpdate]]
  ELSE IF fail
  THEN [proceed |-> FALSE, out |-> MutationCaught(t, <<"selectOne">>, ErrBackend, TRUE)]
  ELSE IF key \notin KeysOf(t)
  THEN [proceed |-> FALSE,
        out |-> [Outcome(t) EXCEPT !.error = ErrNotFound, !.ops = <<"selectOne">>]]
  ELSE [proceed |-> TRUE, out |-> [Outcome(t) EXCEPT !.ops = <<"selectOne">>]]

\* faulty variant: the backend writes the row and then throws
UpdateSafeWrite_WriteThenThrow(t, key, data, fail) ==
  IF key \notin KeysOf(t)
  THEN MutationCaught(t, <<"selectOne", "update">>, ErrEmptyOptional, FALSE)
  ELSE IF fail
  THEN [MutationCaught(t, <<"selectOne", "update">>, ErrBackend, TRUE)
          EXCEPT !.db = Updated(t, key, data)]
  ELSE [Outcome(t) EXCEPT !.success = TRUE, !.ops = <<"selectOne", "update">>,
                          !.db = Updated(t, key, data)]

\* faulty variant: an update of a row that is gone writes the row anew
UpdateSafeWrite_Upserts(t, key, data, fail) ==
  IF fail
  THEN MutationCaught(t, <<"selectOne", "update">>, ErrBackend, TRUE)
  ELSE [Outcome(t) EXCEPT
          !.success = TRUE, !.ops = <<"selectOne", "update">>,
          !.db = IF key \in KeysOf(t) THEN Updated(t, key, data)
                 ELSE [t EXCEPT !.rows = @ \cup {UpdatedRow(
                         [sys_id |-> key, status |-> DefaultStatus,
                          votes |-> DefaultVotes], data)}]]

\* updateSafe after a passed check: get(sysId).update(data).orElseThrow()
UpdateSafeWrite(t, key, data, fail) ==
  IF fail
  THEN MutationCaught(t, <<"selectOne", "update">>, ErrBackend, TRUE)
  ELSE IF key \notin KeysOf(t)
  THEN MutationCaught(t, <<"selectOne", "update">>, ErrEmptyOptional, FALSE)
  ELSE [Outcome(t) EXCEPT !.success = TRUE, !.ops = <<"selectOne", "update">>,
                          !.db = Updated(t, key, data)]

\* faulty variant: the row is deleted before the arguments are tested
DeleteSafe_DeletesFirst(t, table, key, fail) ==
  IF table = NoTable \/ key = NoKey
  THEN [Outcome(t) EXCEPT !.error = ErrMissingDelete, !.ops = <<"deleteRecord">>,
                          !.db = IF key \in KeysOf(t) THEN Deleted(t, key) ELSE t]
  ELSE IF fail
  THEN MutationCaught(t, <<"deleteRecord">>, ErrBackend, TRUE)
  ELSE IF key \notin KeysOf(t)
  THEN MutationCaught(t, <<"deleteRecord">>, ErrEmptyOptional, FALSE)
  ELSE [Outcome(t) EXCEPT !.success = TRUE, !.ops = <<"deleteRecord">>,
                          !.db = Deleted(t, key)]

\* faulty variant: orElseThrow is missing: deleting nothing still answers success
DeleteSafe_NoThrow(t, table, key, fail) ==
  IF table = NoTable \/ key = NoKey
  THEN [Outcome(t) EXCEPT !.error = ErrMissingDelete]
  ELSE IF fail
  THEN MutationCaught(t, <<"deleteRecord">>, ErrBackend, TRUE)
  ELSE [Outcome(t) EXCEPT !.success = TRUE, !.ops = <<"deleteRecord">>,
                          !.db = IF key \in KeysOf(t) THEN Deleted(t, key) ELSE t]

\* faulty variant: the sysId guard is missing: a key-less delete removes every row
DeleteSafe_KeylessDeletesAll(t, table, key, fail) ==
  IF table = NoTable
  THEN [Outcome(t) EXCEPT !.error = ErrMissingDelete]
  ELSE IF fail
  THEN MutationCaught(t, <<"deleteRecord">>, ErrBackend, TRUE)
  ELSE IF key = NoKey
  THEN [Outcome(t) EXCEPT !.success = TRUE, !.ops = <<"deleteRecord">>,
                          !.db = [t EXCEPT !.rows = {}]]
  ELSE IF key \notin KeysOf(t)
  THEN MutationCaught(t, <<"deleteRecord">>, ErrEmptyOptional, FALSE)
  ELSE [Outcome(t) EXCEPT !.success = TRUE, !.ops = <<"deleteRecord">>,
                          !.db = Deleted(t, key)]

\* deleteSafe(table, sysId): get(sysId).deleteRecord().orElseThrow()
DeleteSafe(t, table, key, fail) ==
  IF table = NoTable \/ key = NoKey
  THEN [Outcome(t) EXCEPT !.error = ErrMissingDelete]
  ELSE IF fail
  THEN MutationCaught(t, <<"deleteRecord">>, ErrBackend, TRUE)
  ELSE IF key \notin KeysOf(t)
  THEN MutationCaught(t, <<"deleteRecord">>, ErrEmptyOptional, FALSE)
  ELSE [Outcome(t) EXCEPT !.success = TRUE, !.ops = <<"deleteRecord">>,
                          !.db = Deleted(t, key)]

\* the optional steps of the helper's chains; a builder call that throws
\* ends the chain (the error lands in the helper's catch block)
SelectIf(b, fields) ==
  IF b.err # NoBuildError \/ Len(fields) = 0 THEN b ELSE Select(b.d, fields)

OrderIf(b, orderBy, descending) ==
  IF b.err # NoBuildError \/ orderBy = "" THEN b
  ELSE OrderBy(b.d, orderBy, descending)

\* faulty variant: every limit argument is handed to limit(n)
LimitIf_Always(b, limit) ==
  IF b.err # NoBuildError THEN b ELSE Limit(b.d, limit)

LimitIf(b, limit) ==
  IF b.err # NoBuildError \/ ~(limit # 0 /\ limit > 0) THEN b
  ELSE Limit(b.d, limit)

\* faulty variant: the query is not narrowed to the key
GetSafe_IgnoresKey(t, table, key, fields, fail) ==
  IF table = NoTable \/ key = NoKey
  THEN [Outcome(t) EXCEPT !.warned = TRUE]
  ELSE LET b == SelectIf(Built(NewQuery(table)), fields)
       IN IF b.err # NoBuildError THEN ReadCaught(t, <<>>, b.d, 0, FALSE)
          ELSE IF fail THEN ReadCaught(t, <<"get">>, b.d, 0, TRUE)
          ELSE [Outcome(t) EXCEPT !.rows = Take(Execute(t, b.d), 1),
                                  !.ops = <<"get">>, !.desc = b.d]

\* getSafe(table, sysId, fields); fail: the backend read throws
GetSafe(t, table, key, fields, fail) ==
  IF table = NoTable \/ key = NoKey
  THEN [Outcome(t) EXCEPT !.warned = TRUE]
  ELSE LET b == SelectIf(Where(NewQuery(table), "sys_id", key), fields)
       IN IF b.err # NoBuildError THEN ReadCaught(t, <<>>, b.d, 0, FALSE)
          ELSE IF fail THEN ReadCaught(t, <<"get">>, b.d, 0, TRUE)
          ELSE [Outcome(t) EXCEPT !.rows = Execute(t, b.d), !.ops = <<"get">>,
                                  !.desc = b.d]

\* faulty variant: the rows a query returns are removed from the table
Query_Consumes(t, table, filters, fields, fail) ==
  IF table = NoTable
  THEN [Outcome(t) EXCEPT !.warned = TRUE]
  ELSE LET b == SelectIf(Built(ApplyFilters(NewQuery(table), filters)), fields)
       IN IF b.err # NoBuildError THEN ReadCaught(t, <<>>, b.d, 0, FALSE)
          ELSE IF fail THEN ReadCaught(t, <<"forEach">>, b.d, 0, TRUE)
          ELSE [Outcome(t) EXCEPT
                  !.rows = Execute(t, b.d), !.ops = <<"forEach">>, !.desc = b.d,
                  !.db = [t EXCEPT !.rows = t.rows \ Matching(t, b.d.preds)]]

\* query(table, filters, fields); fail: the backend read throws
Query(t, table, filters, fields, fail) ==
  IF table = NoTable
  THEN [Outcome(t) EXCEPT !.warned = TRUE]
  ELSE LET b == SelectIf(Built(ApplyFilters(NewQuery(table), filters)), fields)
       IN IF b.err # NoBuildError THEN ReadCaught(t, <<>>, b.d, 0, FALSE)
          ELSE IF fail THEN ReadCaught(t, <<"forEach">>, b.d, 0, TRUE)
          ELSE [Outcome(t) EXCEPT !.rows = Execute(t, b.d),
                                  !.ops = <<"forEach">>, !.desc = b.d]

\* faulty variant: the filters are not applied, every row is counted
Count_Unfiltered(t, table, filters, fail) ==
  IF table = NoTable
  THEN Outcome(t)
  ELSE LET b == Aggregate(NewQuery(table), "count", "")
       IN IF b.err # NoBuildError THEN ReadCaught(t, <<>>, b.d, 0, FALSE)
          ELSE IF fail THEN ReadCaught(t, <<"aggregate">>, b.d, 0, TRUE)
          ELSE [Outcome(t) EXCEPT !.num = Cardinality(Matching(t, b.d.preds)),
                                  !.ops = <<"aggregate">>, !.desc = b.d]

\* count(table, filters): aggregate('count').orElse(0)
Count(t, table, filters, fail) ==
  IF table = NoTable
  THEN Outcome(t)
  ELSE LET b == Aggregate(ApplyFilters(NewQuery(table), filters), "count", "")
       IN IF b.err # NoBuildError THEN ReadCaught(t, <<>>, b.d, 0, FALSE)
          ELSE IF fail THEN ReadCaught(t, <<"aggregate">>, b.d, 0, TRUE)
          ELSE [Outcome(t) EXCEPT !.num = Cardinality(Matching(t, b.d.preds)),
                                  !.ops = <<"aggregate">>, !.desc = b.d]

\* the reducer of the documented example: (sum, record) => sum + record.votes
Reducer(acc, r) == acc + r.votes

RECURSIVE Reduce(_, _)
Reduce(acc, sq) ==
  IF sq = <<>> THEN acc ELSE Reduce(Reducer(acc, Head(sq)), Tail(sq))

\* faulty variant: the catch block returns the accumulator
AggregateRows_ReturnsAccumulator(t, table, filters, isFn, initial, fail) ==
  IF table = NoTable \/ ~isFn
  THEN [Outcome(t) EXCEPT !.num = initial, !.warned = TRUE]
  ELSE LET d == ApplyFilters(NewQuery(table), filters)
       IN IF fail
          THEN ReadCaught(t, <<"forEach">>, d, Reduce(initial, Execute(t, d)), TRUE)
          ELSE [Outcome(t) EXCEPT !.num = Reduce(initial, Execute(t, d)),
                                  !.ops = <<"forEach">>, !.desc = d]

\* aggregate(table, filters, reducer, initial); isFn: reducer is a function
AggregateRows(t, table, filters, isFn, initial, fail) ==
  IF table = NoTable \/ ~isFn
  THEN [Outcome(t) EXCEPT !.num = initial, !.warned = TRUE]
  ELSE LET d == ApplyFilters(NewQuery(table), filters)
       IN IF fail THEN ReadCaught(t, <<"forEach">>, d, initial, TRUE)
          ELSE [Outcome(t) EXCEPT !.num = Reduce(initial, Execute(t, d)),
                                  !.ops = <<"forEach">>, !.desc = d]

\* queryOrdered(table, filters, fields, orderBy, descending, limit)
QueryOrdered(t, table, filters, fields, orderBy, descending, limit, fail) ==
  IF table = NoTable
  THEN Outcome(t)
  ELSE LET q == Built(ApplyFilters(NewQuery(table), filters))
           b == SelectIf(LimitIf(OrderIf(q, orderBy, descending), limit), fields)
       IN IF b.err # NoBuildError THEN ReadCaught(t, <<>>, b.d, 0, FALSE)
          ELSE IF fail THEN ReadCaught(t, <<"forEach">>, b.d, 0, TRUE)
          ELSE [Outcome(t) EXCEPT !.rows = Execute(t, b.d),
                                  !.ops = <<"forEach">>, !.desc = b.d]

\* batchInsert's loop from index i on: one insertSafe per record
RECURSIVE BatchLoop(_, _, _, _, _, _)
BatchLoop(t, table, items, fails, i, acc) ==
  IF i > Len(items) THEN [acc EXCEPT !.db = t]
  ELSE LET r == InsertSafe(t, table, items[i], fails[i])
       IN BatchLoop(r.db, table, items, fails, i + 1,
            IF r.success
            THEN [acc EXCEPT !.num = @ + 1, !.ops = @ \o r.ops]
            ELSE [acc EXCEPT !.errors = Append(@, [index |-> i - 1, error |-> r.error]),
                             !.ops = @ \o r.ops, !.threw = @ \/ r.threw,
                             !.logged = @ \/ r.logged])

\* faulty variant: inserted counts the records attempted
BatchInsert_CountsAttempts(t, table, records, fails) ==
  IF table = NoTable \/ ~records.isArray
  THEN [Outcome(t) EXCEPT !.errors = <<[index |-> -1, error |-> "Invalid parameters"]>>]
  ELSE LET r == BatchLoop(t, table, records.items, fails, 1, Outcome(t))
       IN [r EXCEPT !.success = (r.errors = <<>>), !.num = Len(records.items)]

\* batchInsert(table, records); records = [isArray, items]
BatchInsert(t, table, records, fails) ==
  IF table = NoTable \/ ~records.isArray
  THEN [Outcome(t) EXCEPT !.errors = <<[index |-> -1, error |-> "Invalid parameters"]>>]
  ELSE LET r == BatchLoop(t, table, records.items, fails, 1, Outcome(t))
       IN [r EXCEPT !.success = (r.errors = <<>>)]

\* ------------------------------------------------------- bounded inputs
KeyArgs == {NoKey} \cup Keys
InsertData == {NoData,
               [isNull |-> FALSE, status |-> Unset, votes |-> UnsetN],
               [isNull |-> FALSE, status |-> "done", votes |-> UnsetN],
               [isNull |-> FALSE, status |-> Unset, votes |-> 1]}
UpdateData == {NoData,
               [isNull |-> FALSE, status |-> "done", votes |-> UnsetN],
               [isNull |-> FALSE, status |-> "active", votes |-> 1]}
FilterArgs == {<<>>,
               <<[field |-> "status", value |-> "active"]>>,
               <<[field |-> "votes", value |-> 1]>>,
               <<[field |-> "status", value |-> "active"], [field |-> "votes", value |-> 1]>>,
               <<[field |-> "votes", value |-> 0], [field |-> "status", value |-> "done"]>>}
FieldArgs == {<<>>, <<"status">>}
OrderArgs == {"", "votes"}
LimitArgs == (-1)..MaxLimit
InitialArgs == {0, 5}
RecordArgs == {[isArray |-> FALSE, items |-> <<>>],
               [isArray |-> TRUE, items |-> <<>>],
               [isArray |-> TRUE, items |-> <<[isNull |-> FALSE, status |-> "done", votes |-> UnsetN]>>],
               [isArray |-> TRUE, items |-> <<[isNull |-> FALSE, status |-> Unset, votes |-> 1], NoData>>],
               [isArray |-> TRUE, items |-> <<[isNull |-> FALSE, status |-> Unset, votes |-> 1],
                                              [isNull |-> FALSE, status |-> "done", votes |-> 1]>>]}

\* ------------------------------------------------------- the call record
NoCall ==
  [op |-> "none", table |-> NoTable, key |-> NoKey, data |-> NoData,
   filters |-> <<>>, fields |-> <<>>, orderBy |-> "", descending |-> FALSE,
   limit |-> 0, isFn |-> TRUE, initial |-> 0,
   records |-> [isArray |-> FALSE, items |-> <<>>]]

\* the last builder call: method, receiver's place in descs, error raised
NoBuilderCall == [call |-> "none", recv |-> 0, err |-> NoBuildError]

NoPending ==
  [active |-> FALSE, table |-> NoTable, key |-> NoKey, data |-> NoData,
   start |-> EmptyTable]

\* what a read call keeps of the call made immediately before it: kind
\* "insert" when that was a successful insertSafe (its data and returned
\* sysId), kind "same" when that was this very call (what it returned)
NoPrev ==
  [kind |-> "none", data |-> NoData, sysId |-> NoKey, rows |-> <<>>, num |-> 0,
   threw |-> FALSE]

Prev(call) ==
  IF ~track THEN NoPrev
  ELSE IF call.op = "getSafe" /\ last.call.op = "insertSafe" /\ last.out.success
  THEN [NoPrev EXCEPT !.kind = "insert", !.data = last.call.data,
                      !.sysId = last.out.sysId]
  ELSE IF call.op \in {"getSafe", "query", "queryOrdered", "count", "aggregate"}
          /\ last.call = call
  THEN [NoPrev EXCEPT !.kind = "same", !.rows = last.out.rows,
                      !.num = last.out.num, !.threw = last.out.threw]
  ELSE NoPrev

\* a helper call returns: its writes are in db, last is what the caller saw;
\* start: the table when the call began; before: the table when the call
\* took its last step (they differ only for an updateSafe that another
\* caller's write was interleaved with)
Return(call, out, start) ==
  /\ db' = out.db
  /\ last' = [call |-> call, out |-> out, start |-> start, before |-> db,
              prev |-> Prev(call)]

\* ------------------------------------------------------ schema registry
\* a registry maps each registered table to its fields: for every field name
\* the kind of the field of that name, Absent when the table has none
SchemaTables == {"session", "story"}
FieldNames == {"name", "owner"}
Absent == "absent"
PlainType == "string"
FieldKinds == {Absent, PlainType} \cup SchemaTables   \* a table: reference to it
Registries == [SchemaTables -> [FieldNames -> FieldKinds]]

UnknownFieldError == "UnknownFieldError"
NoFieldDef == [name |-> "", type |-> "", target |-> "", on |-> ""]
Unknown == [err |-> UnknownFieldError, def |-> NoFieldDef]

\* the FieldDef of field f of table t (on: the table that declares it)
FieldDefOf(reg, t, f) ==
  IF reg[t][f] \in SchemaTables
  THEN [name |-> f, type |-> "reference", target |-> reg[t][f], on |-> t]
  ELSE [name |-> f, type |-> reg[t][f], target |-> "", on |-> t]

\* a plain field name looked up on a table
Lookup(reg, t, f) ==
  IF reg[t][f] = Absent THEN Unknown
  ELSE [err |-> NoBuildError, def |-> FieldDefOf(reg, t, f)]

\* faulty variant: a second hop is followed like the first
ResolveFieldPath_TwoHops(reg, t, path) ==
  IF Len(path) = 1 THEN Lookup(reg, t, path[1])
  ELSE IF reg[t][path[1]] \notin SchemaTables THEN Unknown
  ELSE IF Len(path) = 2 THEN Lookup(reg, reg[t][path[1]], path[2])
  ELSE IF Len(path) > 3 \/ reg[reg[t][path[1]]][path[2]] \notin SchemaTables
  THEN Unknown
  ELSE Lookup(reg, reg[reg[t][path[1]]][path[2]], path[3])

\* resolveFieldPath(table, path); path is the dotted path split at '.'
ResolveFieldPath(reg, t, path) ==
  IF Len(path) = 1 THEN Lookup(reg, t, path[1])
  ELSE IF Len(path) > 2 THEN Unknown
  ELSE IF reg[t][path[1]] \notin SchemaTables THEN Unknown
  ELSE Lookup(reg, reg[t][path[1]], path[2])

Paths == UNION {[1..n -> FieldNames] : n \in 1..(MaxHops + 1)}
NoRes == [reg |-> <<>>, table |-> "", path |-> <<>>, out |-> Unknown]

\* --------------------------------------------------- data model validator
\* a table file: whether its content parses as JSON, whether label and name
\* are present, and its fields. The table of the i-th file is named i; a
\* field's reference is the table it names, NoReference when it names none.
\* The files define no indexes, no audit field and no extends, and their
\* names follow the scope convention.
NoReference == 0
TableIds == 1..MaxTables
FieldDefs ==
  {[name |-> "", type |-> "string", reference |-> NoReference],
   [name |-> "a", type |-> "", reference |-> NoReference]}
  \cup {[name |-> n, type |-> "string", reference |-> NoReference] : n \in {"a", "b"}}
  \cup {[name |-> "a", type |-> "reference", reference |-> k] :
          k \in {NoReference} \cup TableIds}
FieldLists == UNION {[1..n -> FieldDefs] : n \in 0..MaxFields}
Unparsable == [parses |-> FALSE, named |-> FALSE, fields |-> <<>>]
TableFiles ==
  {Unparsable} \cup [parses : {TRUE}, named : BOOLEAN, fields : FieldLists]

NoMessage == ""
ErrNoDirectory == "Tables directory not found"
ErrUnparsable == "Unexpected token"
ErrMissingRequired == "Missing required field"
ErrNoFields == "Table has no fields defined"
ErrFieldIncomplete == "Field missing name or type"
ErrDuplicateField == "Duplicate field name"
ErrNoReferenceTable == "missing reference table"

\* validateTableStructure: the message of the exception thrown, if any
ValidateTableStructure(table) ==
  IF ~table.named THEN ErrMissingRequired ELSE NoMessage

\* faulty variant: the loop over the fields has no duplicate check
RECURSIVE FieldLoop_NoDuplicateCheck(_, _, _)
FieldLoop_NoDuplicateCheck(fields, i, fieldNames) ==
  IF i > Len(fields) THEN NoMessage
  ELSE IF fields[i].name = "" \/ fields[i].type = "" THEN ErrFieldIncomplete
  ELSE IF fields[i].type = "reference" /\ fields[i].reference = NoReference
  THEN ErrNoReferenceTable
  ELSE FieldLoop_NoDuplicateCheck(fields, i + 1, fieldNames \cup {fields[i].name})

\* validateFields' loop from field i on; fieldNames: the names seen so far
RECURSIVE FieldLoop(_, _, _)
FieldLoop(fields, i, fieldNames) ==
  IF i > Len(fields) THEN NoMessage
  ELSE IF fields[i].name = "" \/ fields[i].type = "" THEN ErrFieldIncomplete
  ELSE IF fields[i].name \in fieldNames THEN ErrDuplicateField
  ELSE IF fields[i].type = "reference" /\ fields[i].reference = NoReference
  THEN ErrNoReferenceTable
  ELSE FieldLoop(fields, i + 1, fieldNames \cup {fields[i].name})

\* validateFields: the message of the exception thrown, if any
ValidateFields(table) ==
  IF Len(table.fields) = 0 THEN ErrNoFields
  ELSE FieldLoop(table.fields, 1, {})

\* the try block of validateTable: the message that reaches its catch
ValidateTableError(table) ==
  IF ~table.parses THEN ErrUnparsable
  ELSE IF ValidateTableStructure(table) # NoMessage
  THEN ValidateTableStructure(table)
  ELSE ValidateFields(table)

\* warnings pushed for a table that passes: no created_on field, no indexes
WarningsOf(table) == IF ValidateTableError(table) = NoMessage THEN 2 ELSE 0

\* what a table file contains: two fields of one name; the tables its
\* reference fields name
HasDuplicate(table) ==
  \E i, j \in DOMAIN table.fields :
    i < j /\ table.fields[i].name # "" /\ table.fields[i].name = table.fields[j].name

ReferencesOf(table) ==
  {table.fields[i].reference : i \in DOMAIN table.fields} \ {NoReference}

\* the validator: pc its position in validate(), files the number of table
\* files found, i the files validated, errors and warnings as the object
\* holds them; of the files read so far: declared the tables they define,
\* refs the tables their reference fields name, dups the files holding a
\* duplicate field name
NoVal ==
  [pc |-> "idle", files |-> 0, i |-> 0, errors |-> <<>>, warnings |-> 0,
   declared |-> {}, refs |-> {}, dups |-> {}, result |-> "none"]

\* ----------------------------------------------------------- seed script
\* scoringMethods: name, is_default and the values of each method, in the
\* order of the array; the order field of the j-th value of a method is j
ScoringMethods ==
  <<[name |-> "T-Shirt Sizes", is_default |-> TRUE,
     values |-> <<"XS", "S", "M", "L", "XL", "XXL", "?", "Coffee">>],
    [name |-> "Fibonacci Sequence", is_default |-> FALSE,
     values |-> <<"0", "1", "2", "3", "5", "8", "13", "21", "?", "Coffee">>],
    [name |-> "Modified Fibonacci", is_default |-> FALSE,
     values |-> <<"0", "0.5", "1", "2", "3", "5", "8", "13", "20", "40", "?",
                  "Coffee">>],
    [name |-> "Powers of 2", is_default |-> FALSE,
     values |-> <<"1", "2", "4", "8", "16", "32", "?", "Coffee">>]>>
ValueCounts == [i \in DOMAIN ScoringMethods |-> Len(ScoringMethods[i].values)]
NumMethods == Len(ScoringMethods)
ValueTable == "scoring_value"

\* GlideRecord insert() that succeeds: the row is stored under a new sys_id
GrInsert(t, row) ==
  [rows |-> t.rows \cup {row}, issued |-> t.issued + 1]

NoReturn == [success |-> FALSE, methods_created |-> 0, values_created |-> 0]
NoHelperCall == [ref |-> NoKey, success |-> FALSE, sysId |-> NoKey]

\* the script and the two tables it writes: pc its position, run the runs
\* started, fails the inserts that failed, i and j the loop indexes (from 1)
NoSeed ==
  [pc |-> "idle", run |-> 0, fails |-> 0, i |-> 0, j |-> 0,
   methodSysId |-> NoKey, methodCount |-> 0, valueCount |-> 0,
   methods |-> EmptyTable, values |-> EmptyTable, ret |-> NoReturn,
   helper |-> NoHelperCall]

\* faulty variant: the existence check never finds a row
MethodExists_Never(s, name) == FALSE

\* the existence check: a scoring method row of that name
MethodExists(s, name) == \E r \in s.methods.rows : r.name = name

\* faulty variant: every method is inserted with is_default true
MethodInserted_AllDefault(s, ok) ==
  IF ok
  THEN [s EXCEPT !.methods = GrInsert(@, [sys_id |-> NewKey(@),
                                          name |-> ScoringMethods[s.i].name,
                                          is_default |-> TRUE]),
                 !.methodSysId = NewKey(s.methods),
                 !.methodCount = @ + 1,
                 !.pc = IF ValueCounts[s.i] > 0 THEN "values" ELSE "check",
                 !.i = IF ValueCounts[s.i] > 0 THEN @ ELSE @ + 1,
                 !.j = 1]
  ELSE [s EXCEPT !.methodSysId = NoKey, !.fails = @ + 1, !.pc = "check",
                 !.i = @ + 1]

\* after methodGr.insert(): ok when it returned a sys_id
MethodInserted(s, ok) ==
  IF ok
  THEN [s EXCEPT !.methods = GrInsert(@, [sys_id |-> NewKey(@),
                                          name |-> ScoringMethods[s.i].name,
                                          is_default |-> ScoringMethods[s.i].is_default]),
                 !.methodSysId = NewKey(s.methods),
                 !.methodCount = @ + 1,
                 !.pc = IF ValueCounts[s.i] > 0 THEN "values" ELSE "check",
                 !.i = IF ValueCounts[s.i] > 0 THEN @ ELSE @ + 1,
                 !.j = 1]
  ELSE [s EXCEPT !.methodSysId = NoKey, !.fails = @ + 1, !.pc = "check",
                 !.i = @ + 1]

\* faulty variant: the loop over the values stops one value short
ValueInserted_StopsShort(s, ok) ==
  LET last_j == s.j >= ValueCounts[s.i] - 1
      t == IF ok
           THEN [s EXCEPT !.values = GrInsert(@, [sys_id |-> NewKey(@),
                                                  scoring_method |-> s.methodSysId,
                                                  value |-> ScoringMethods[s.i].values[s.j],
                                                  order |-> s.j]),
                          !.valueCount = @ + 1]
           ELSE [s EXCEPT !.fails = @ + 1]
  IN IF last_j THEN [t EXCEPT !.pc = "check", !.i = @ + 1, !.j = 0]
     ELSE [t EXCEPT !.j = @ + 1]

\* after valueGr.insert() of value j: ok when it returned a sys_id
ValueInserted(s, ok) ==
  LET last_j == s.j >= ValueCounts[s.i]
      t == IF ok
           THEN [s EXCEPT !.values = GrInsert(@, [sys_id |-> NewKey(@),
                                                  scoring_method |-> s.methodSysId,
                                                  value |-> ScoringMethods[s.i].values[s.j],
                                                  order |-> s.j]),
                          !.valueCount = @ + 1]
           ELSE [s EXCEPT !.fails = @ + 1]
  IN IF last_j THEN [t EXCEPT !.pc = "check", !.i = @ + 1, !.j = 0]
     ELSE [t EXCEPT !.j = @ + 1]

\* --------------------------------------------------- verification script
\* the script's checks in program order: pc 1, 2 the two checkJsonFile
\* calls, 3 checkFile('.fluent'), 4 to 10 the seven checkFile calls that
\* follow, 11 the table definitions, 12 checkFile of the helper, 13, 14 the
\* two type markers, 15 the .fluent content, 16 the summary and exit
Step ==
  [json |-> {1, 2}, env |-> 3, file |-> (3..10) \cup {12}, tables |-> 11,
   marker |-> {13, 14}, content |-> 15, exit |-> 16]
NoStatus == -1

\* what a checked JSON file is: missing, not JSON, JSON whose _type is not
\* 'fluent_application', JSON whose _type is; a table file may also hold a
\* name that is no string
JsonFiles == {"missing", "invalid", "untyped", "typed"}
TableJsons == {"missing", "invalid", "valid", "badname"}

\* passed, failed: the two counters; fluentApp, appConfig: what the two
\* checkJsonFile calls returned ("null" or the file's kind); env: .fluent
\* exists; left: table files still to check (NoStatus before the directory
\* is read); status: the exit status; nominal: every check so far met what
\* it looks for; tables: the table files found
NoVer ==
  [pc |-> 1, passed |-> 0, failed |-> 0, fluentApp |-> "null",
   appConfig |-> "null", env |-> FALSE, left |-> NoStatus, status |-> NoStatus,
   nominal |-> TRUE, tables |-> 0]

\* checkFile: one more passed when the file exists, else one more failed
FileChecked(v, exists) ==
  IF exists THEN [v EXCEPT !.passed = @ + 1]
  ELSE [v EXCEPT !.failed = @ + 1, !.nominal = FALSE]

\* checkJsonFile: checkFile, then one more failed when the content does not
\* parse; the value returned is kept by the caller
JsonChecked(v, file) ==
  LET w == FileChecked(v, file # "missing")
  IN IF file = "invalid" THEN [w EXCEPT !.failed = @ + 1, !.nominal = FALSE]
     ELSE [w EXCEPT !.nominal = @ /\ file = "typed"]

Returned(file) == IF file \in {"missing", "invalid"} THEN "null" ELSE file

\* a type marker check on what checkJsonFile returned
MarkerChecked(v, content) ==
  IF content = "typed" THEN [v EXCEPT !.passed = @ + 1]
  ELSE [v EXCEPT !.failed = @ + 1]

\* faulty variant: the script always exits with status 0
ExitStatus_AlwaysZero(failed) == 0

\* process.exit(failed === 0 ? 0 : 1)
ExitStatus(failed) == IF failed = 0 THEN 0 ELSE 1

\* ------------------------------------------------------ votes of a session
\* one planning session: its stories, its voters, the planning_vote rows in
\* insertion order, and the summary fields the business rules maintain
Stories == 1..MaxStories
Voters == 1..MaxVoters
StoryStatus == {"pending", "voting", "revealed", "completed", "skipped"}

NoPoll ==
  [votes |-> <<>>,
   status |-> [s \in Stories |-> "pending"],
   vote_count |-> [s \in Stories |-> 0],
   total_votes |-> 0,
   stories_completed |-> 0,
   stories_skipped |-> 0]

VotesOf(p, s) == {i \in DOMAIN p.votes : p.votes[i].session_story = s}
CurrentVotes(p, s) == {i \in VotesOf(p, s) : p.votes[i].is_current}
AllCurrent(p) == {i \in DOMAIN p.votes : p.votes[i].is_current}

\* MAX(vote_sequence) over a story's votes, 0 when it has none
MaxSequence(p, s) ==
  IF VotesOf(p, s) = {} THEN 0
  ELSE CHOOSE n \in {p.votes[i].vote_sequence : i \in VotesOf(p, s)} :
         \A i \in VotesOf(p, s) : p.votes[i].vote_sequence <= n

\* the calculated field times_revoted of a story that has votes
TimesRevoted(p, s) == MaxSequence(p, s) - 1

\* hasUserVoted: the voter has a current vote on the story
HasUserVoted(p, s, u) ==
  \E i \in CurrentVotes(p, s) : p.votes[i].voter = u

\* faulty variant: every vote is created with vote_sequence 1
VoteSequence_AlwaysOne(p, s) == 1

\* the sequence of a new vote: that of the story's current votes, and one
\* higher than the previous votes when the story has no current vote
VoteSequence(p, s) ==
  IF CurrentVotes(p, s) # {}
  THEN p.votes[CHOOSE i \in CurrentVotes(p, s) : TRUE].vote_sequence
  ELSE MaxSequence(p, s) + 1

\* a planning_vote insert and the two increments it triggers
VoteInserted(p, s, u) ==
  [p EXCEPT
     !.votes = Append(@, [session_story |-> s, voter |-> u,
                          vote_sequence |-> VoteSequence(p, s),
                          is_current |-> TRUE]),
     !.vote_count[s] = @ + 1,
     !.total_votes = @ + 1]

\* a re-vote: the story's previous votes are marked old, none is deleted
Revoted(p, s) ==
  [p EXCEPT
     !.votes = [i \in DOMAIN @ |->
                  IF @[i].session_story = s
                  THEN [@[i] EXCEPT !.is_current = FALSE] ELSE @[i]],
     !.status[s] = "voting"]

\* a status update of a story and the increment it triggers
StatusChanged(p, s, status) ==
  [p EXCEPT
     !.status[s] = status,
     !.stories_completed = IF status = "completed" THEN @ + 1 ELSE @,
     !.stories_skipped = IF status = "skipped" THEN @ + 1 ELSE @]

\* no helper call was made yet, no builder exists
Fresh ==
  /\ db = EmptyTable
  /\ last = [call |-> NoCall, out |-> Outcome(EmptyTable), start |-> EmptyTable,
             before |-> EmptyTable, prev |-> NoPrev]
  /\ pend = NoPending
  /\ descs = <<>>
  /\ berr = NoBuilderCall

Init ==
  /\ Fresh
  /\ val = NoVal
  /\ seed = NoSeed
  /\ res = NoRes
  /\ track = FALSE
  /\ ver = NoVer
  /\ poll = NoPoll

\* ---------------------------------------------------------- helper calls
\* While another caller's updateSafe sits between its existence check and
\* its update, only the calls that write (insertSafe, deleteSafe) are
\* interleaved: the reads change nothing that updateSafe sees.
DoInsertSafe ==
  \E table \in TableArgs, data \in InsertData, fail \in BOOLEAN :
    /\ db.issued < MaxKeys
    /\ (table = NoTable \/ data.isNull) => ~fail
    /\ Return([NoCall EXCEPT !.op = "insertSafe", !.table = table, !.data = data],
              InsertSafe(db, table, data, fail), db)
    /\ UNCHANGED <<pend, descs, berr, tools>>

DoUpdateSafeCheck ==
  \E table \in TableArgs, key \in KeyArgs, data \in UpdateData, fail \in BOOLEAN :
    /\ ~pend.active
    /\ (table = NoTable \/ key = NoKey \/ data.isNull) => ~fail
    /\ LET c == UpdateSafeCheck(db, table, key, data, fail)
       IN IF c.proceed
          THEN /\ pend' = [active |-> TRUE, table |-> table, key |-> key, data |-> data,
                        start |-> db]
               /\ UNCHANGED <<db, last>>
          ELSE /\ Return([NoCall EXCEPT !.op = "updateSafe", !.table = table,
                                        !.key = key, !.data = data], c.out, db)
               /\ UNCHANGED pend
    /\ UNCHANGED <<descs, berr, tools>>

DoUpdateSafeWrite ==
  \E fail \in BOOLEAN :
    /\ pend.active
    /\ Return([NoCall EXCEPT !.op = "updateSafe", !.table = pend.table,
                             !.key = pend.key, !.data = pend.data],
              UpdateSafeWrite(db, pend.key, pend.data, fail), pend.start)
    /\ pend' = NoPending
    /\ UNCHANGED <<descs, berr, tools>>

DoDeleteSafe ==
  \E table \in TableArgs, key \in KeyArgs, fail \in BOOLEAN :
    /\ (table = NoTable \/ key = NoKey) => ~fail
    /\ Return([NoCall EXCEPT !.op = "deleteSafe", !.table = table, !.key = key],
              DeleteSafe(db, table, key, fail), db)
    /\ UNCHANGED <<pend, descs, berr, tools>>

DoGetSafe ==
  \E table \in TableArgs, key \in KeyArgs, fields \in FieldArgs, fail \in BOOLEAN :
    /\ ~pend.active
    /\ (table = NoTable \/ key = NoKey) => ~fail
    /\ Return([NoCall EXCEPT !.op = "getSafe", !.table = table, !.key = key,
                             !.fields = fields],
              GetSafe(db, table, key, fields, fail), db)
    /\ UNCHANGED <<pend, descs, berr, tools>>

DoQuery ==
  \E table \in TableArgs, filters \in FilterArgs, fields \in FieldArgs, fail \in BOOLEAN :
    /\ ~pend.active
    /\ table = NoTable => ~fail
    /\ Return([NoCall EXCEPT !.op = "query", !.table = table, !.filters = filters,
                             !.fields = fields],
              Query(db, table, filters, fields, fail), db)
    /\ UNCHANGED <<pend, descs, berr, tools>>

DoCount ==
  \E table \in TableArgs, filters \in FilterArgs, fail \in BOOLEAN :
    /\ ~pend.active
    /\ table = NoTable => ~fail
    /\ Return([NoCall EXCEPT !.op = "count", !.table = table, !.filters = filters],
              Count(db, table, filters, fail), db)
    /\ UNCHANGED <<pend, descs, berr, tools>>

DoAggregate ==
  \E table \in TableArgs, filters \in FilterArgs, isFn \in BOOLEAN,
     initial \in InitialArgs, fail \in BOOLEAN :
    /\ ~pend.active
    /\ (table = NoTable \/ ~isFn) => ~fail
    /\ Return([NoCall EXCEPT !.op = "aggregate", !.table = table, !.filters = filters,
                             !.isFn = isFn, !.initial = initial],
              AggregateRows(db, table, filters, isFn, initial, fail), db)
    /\ UNCHANGED <<pend, descs, berr, tools>>

DoQueryOrdered ==
  \E table \in TableArgs, filters \in {<<>>, <<[field |-> "status", value |-> "active"]>>},
     orderBy \in OrderArgs, descending \in BOOLEAN, limit \in LimitArgs,
     fail \in BOOLEAN :
    /\ ~pend.active
    /\ table = NoTable => ~fail
    /\ Return([NoCall EXCEPT !.op = "queryOrdered", !.table = table,
                             !.filters = filters, !.orderBy = orderBy,
                             !.descending = descending, !.limit = limit],
              QueryOrdered(db, table, filters, <<>>, orderBy, descending, limit, fail), db)
    /\ UNCHANGED <<pend, descs, berr, tools>>

DoBatchInsert ==
  \E table \in TableArgs, records \in RecordArgs :
    \E fails \in [DOMAIN records.items -> BOOLEAN] :
      /\ ~pend.active
      /\ db.issued + Len(records.items) <= MaxKeys
      /\ \A i \in DOMAIN fails : (table = NoTable \/ records.items[i].isNull) => ~fails[i]
      /\ Return([NoCall EXCEPT !.op = "batchInsert", !.table = table,
                               !.records = records],
                BatchInsert(db, table, records, fails), db)
      /\ UNCHANGED <<pend, descs, berr, tools>>

Next ==
  \/ DoInsertSafe
  \/ DoUpdateSafeCheck
  \/ DoUpdateSafeWrite
  \/ DoDeleteSafe
  \/ DoGetSafe
  \/ DoQuery
  \/ DoCount
  \/ DoAggregate
  \/ DoQueryOrdered
  \/ DoBatchInsert

Spec == Init /\ [][Next]_vars

\* ------------------------------------------- reads that follow a call
\* the same helper, with each read recording the call made before it; the
\* two-step updateSafe is left out, so that consecutive calls are adjacent
InitR ==
  /\ Fresh
  /\ val = NoVal
  /\ seed = NoSeed
  /\ res = NoRes
  /\ track = TRUE
  /\ ver = NoVer
  /\ poll = NoPoll

NextR ==
  \/ DoInsertSafe
  \/ DoDeleteSafe
  \/ DoGetSafe
  \/ DoQuery
  \/ DoCount
  \/ DoAggregate
  \/ DoQueryOrdered

SpecR == InitR /\ [][NextR]_vars

\* ------------------------------------------------- counting a table
\* the tables of n rows that inserts leave behind: keys 1..n, any column values
TablesOf(n) ==
  {[rows |-> {[sys_id |-> k, status |-> st[k], votes |-> vt[k]] : k \in 1..n},
    issued |-> n] : st \in [1..n -> StatusVals], vt \in [1..n -> VoteVals]}

CountedTables == UNION {TablesOf(n) : n \in 0..MaxRows}

\* count and query called on a table that already holds rows
InitC ==
  /\ db \in CountedTables
  /\ last = [call |-> NoCall, out |-> Outcome(db), start |-> db,
             before |-> db, prev |-> NoPrev]
  /\ pend = NoPending
  /\ descs = <<>>
  /\ berr = NoBuilderCall
  /\ val = NoVal
  /\ seed = NoSeed
  /\ res = NoRes
  /\ track = FALSE
  /\ ver = NoVer
  /\ poll = NoPoll

NextC ==
  \/ DoCount
  \/ DoQuery

SpecC == InitC /\ [][NextC]_vars

\* ---------------------------------------------------- validating tables
InitV ==
  /\ Fresh
  /\ val = NoVal
  /\ seed = NoSeed
  /\ res = NoRes
  /\ track = FALSE
  /\ ver = NoVer
  /\ poll = NoPoll

\* validate() up to getTableFiles
DoGetTableFiles ==
  /\ val.pc = "idle"
  /\ \/ val' = [val EXCEPT !.pc = "tables",
                           !.errors = <<[file |-> 0, msg |-> ErrNoDirectory]>>]
     \/ \E n \in 0..MaxTables : val' = [val EXCEPT !.pc = "tables", !.files = n]
  /\ UNCHANGED <<db, last, pend, descs, berr, seed, res, track, ver, poll>>

\* validateTable(file) for the next file
DoValidateTable ==
  /\ val.pc = "tables"
  /\ val.i < val.files
  /\ \E table \in TableFiles :
       LET f == val.i + 1
           msg == ValidateTableError(table)
       IN val' = [val EXCEPT
                    !.i = f,
                    !.errors = IF msg = NoMessage THEN @
                               ELSE Append(@, [file |-> f, msg |-> msg]),
                    !.warnings = @ + WarningsOf(table),
                    !.declared = IF table.parses /\ table.named THEN @ \cup {f}
                                 ELSE @,
                    !.refs = @ \cup ReferencesOf(table),
                    !.dups = IF HasDuplicate(table) THEN @ \cup {f} ELSE @]
  /\ UNCHANGED <<db, last, pend, descs, berr, seed, res, track, ver, poll>>

\* validateRelationships(): it logs, and checks no reference
DoValidateRelationships ==
  /\ val.pc = "tables"
  /\ val.i = val.files
  /\ val' = [val EXCEPT !.pc = "display"]
  /\ UNCHANGED <<db, last, pend, descs, berr, seed, res, track, ver, poll>>

\* displayResults(), then validate's return: process.exit(1) when there are
\* errors, else validate returns errors.length === 0
DoDisplayResults ==
  /\ val.pc = "display"
  /\ val' = IF val.errors # <<>>
            THEN [val EXCEPT !.pc = "exited", !.result = "failed"]
            ELSE [val EXCEPT !.pc = "returned", !.result = "passed"]
  /\ UNCHANGED <<db, last, pend, descs, berr, seed, res, track, ver, poll>>

NextV ==
  \/ DoGetTableFiles
  \/ DoValidateTable
  \/ DoValidateRelationships
  \/ DoDisplayResults

SpecV == InitV /\ [][NextV]_vars

\* ------------------------------------------------------ running the seed
InitS ==
  /\ Fresh
  /\ val = NoVal
  /\ seed = NoSeed
  /\ res = NoRes
  /\ track = FALSE
  /\ ver = NoVer
  /\ poll = NoPoll

\* the script is run (again) in Background Scripts
SeedStart ==
  /\ seed.pc \in {"idle", "done"}
  /\ seed.run < MaxRuns
  /\ seed' = [seed EXCEPT !.pc = "check", !.run = @ + 1, !.i = 1, !.j = 0,
                          !.methodSysId = NoKey, !.methodCount = 0,
                          !.valueCount = 0, !.ret = NoReturn]
  /\ UNCHANGED <<db, last, pend, descs, berr, val, res, track, ver, poll>>

\* the loop head and the existence check of method i
SeedCheck ==
  /\ seed.pc = "check"
  /\ seed.i <= NumMethods
  /\ seed' = IF MethodExists(seed, ScoringMethods[seed.i].name) THEN [seed EXCEPT !.i = @ + 1]
             ELSE [seed EXCEPT !.pc = "method"]
  /\ UNCHANGED <<db, last, pend, descs, berr, val, res, track, ver, poll>>

SeedInsertMethod ==
  /\ seed.pc = "method"
  /\ \E ok \in BOOLEAN :
       /\ ~ok => seed.fails < MaxFails
       /\ seed' = MethodInserted(seed, ok)
  /\ UNCHANGED <<db, last, pend, descs, berr, val, res, track, ver, poll>>

SeedInsertValue ==
  /\ seed.pc = "values"
  /\ \E ok \in BOOLEAN :
       /\ ~ok => seed.fails < MaxFails
       /\ seed' = ValueInserted(seed, ok)
  /\ UNCHANGED <<db, last, pend, descs, berr, val, res, track, ver, poll>>

\* the loop is over: log and return the counters
SeedReturn ==
  /\ seed.pc = "check"
  /\ seed.i > NumMethods
  /\ seed' = [seed EXCEPT !.pc = "done",
                          !.ret = [success |-> TRUE,
                                   methods_created |-> seed.methodCount,
                                   values_created |-> seed.valueCount]]
  /\ UNCHANGED <<db, last, pend, descs, berr, val, res, track, ver, poll>>

NextS ==
  \/ SeedStart
  \/ SeedCheck
  \/ SeedInsertMethod
  \/ SeedInsertValue
  \/ SeedReturn

SpecS == InitS /\ [][NextS]_vars

\* ------------------------------------- seed data written with the helper
\* the references a caller hands to insertSafe: the sys_id of the first
\* scoring method, and a sys_id no scoring method ever gets
RefArgs == {1, NumMethods + 1}

\* insertSafe(scoring_value table, {scoring_method: ref, ...}), called while
\* the seed script is not running
DoInsertScoringValue ==
  \E ref \in RefArgs, fail \in BOOLEAN :
    LET out == InsertSafe(seed.values, ValueTable,
                          [isNull |-> FALSE, scoring_method |-> ref,
                           value |-> "XS", order |-> 0],
                          fail)
    IN /\ seed.pc \in {"idle", "done"}
       /\ Cardinality({r \in seed.values.rows : r.order = 0}) < MaxKeys
       /\ seed' = [seed EXCEPT !.values = out.db,
                               !.helper = [ref |-> ref, success |-> out.success,
                                           sysId |-> out.sysId]]
       /\ UNCHANGED <<db, last, pend, descs, berr, val, res, track, ver, poll>>

NextI ==
  \/ SeedStart
  \/ SeedCheck
  \/ SeedInsertMethod
  \/ SeedInsertValue
  \/ SeedReturn
  \/ DoInsertScoringValue

SpecI == InitS /\ [][NextI]_vars

\* ---------------------------------------- verifying the application
InitF ==
  /\ Fresh
  /\ val = NoVal
  /\ seed = NoSeed
  /\ res = NoRes
  /\ track = FALSE
  /\ ver = NoVer
  /\ poll = NoPoll

VerCheckJson ==
  /\ ver.status = NoStatus
  /\ ver.pc \in Step.json
  /\ \E file \in JsonFiles :
       ver' = [JsonChecked(ver, file) EXCEPT
                 !.pc = @ + 1,
                 !.fluentApp = IF ver.pc = 1 THEN Returned(file) ELSE @,
                 !.appConfig = IF ver.pc = 2 THEN Returned(file) ELSE @]
  /\ UNCHANGED <<db, last, pend, descs, berr, val, seed, res, track, poll>>

VerCheckFile ==
  /\ ver.status = NoStatus
  /\ ver.pc \in Step.file
  /\ \E exists \in BOOLEAN :
       ver' = [FileChecked(ver, exists) EXCEPT
                 !.pc = @ + 1,
                 !.env = IF ver.pc = Step.env THEN exists ELSE @]
  /\ UNCHANGED <<db, last, pend, descs, berr, val, seed, res, track, poll>>

\* src/tables is missing (one more failed), or holds n table files
VerReadTables ==
  /\ ver.status = NoStatus
  /\ ver.pc = Step.tables
  /\ ver.left = NoStatus
  /\ \/ ver' = [ver EXCEPT !.failed = @ + 1, !.nominal = FALSE, !.pc = @ + 1]
     \/ \E n \in 0..MaxTableFiles :
          ver' = [ver EXCEPT !.left = n, !.tables = n,
                             !.pc = IF n = 0 THEN @ + 1 ELSE @]
  /\ UNCHANGED <<db, last, pend, descs, berr, val, seed, res, track, poll>>

\* one table file of the forEach: checkJsonFile, then name.includes, which
\* throws when name is no string: the uncaught exception ends the process
\* with status 1
VerCheckTable ==
  /\ ver.status = NoStatus
  /\ ver.pc = Step.tables
  /\ ver.left > 0
  /\ \E file \in TableJsons :
       LET w == JsonChecked(ver, IF file \in {"valid", "badname"} THEN "typed"
                                 ELSE file)
       IN ver' = IF file = "badname"
                 THEN [w EXCEPT !.status = 1, !.nominal = FALSE]
                 ELSE [w EXCEPT !.left = @ - 1,
                                !.pc = IF ver.left = 1 THEN @ + 1 ELSE @]
  /\ UNCHANGED <<db, last, pend, descs, berr, val, seed, res, track, poll>>

VerCheckMarker ==
  /\ ver.status = NoStatus
  /\ ver.pc \in Step.marker
  /\ ver' = [MarkerChecked(ver, IF ver.pc = 13 THEN ver.fluentApp
                                 ELSE ver.appConfig) EXCEPT !.pc = @ + 1]
  /\ UNCHANGED <<db, last, pend, descs, berr, val, seed, res, track, poll>>

\* .fluent, when it exists, contains FLUENT_APPLICATION=true or not
VerCheckContent ==
  /\ ver.status = NoStatus
  /\ ver.pc = Step.content
  /\ \/ /\ ~ver.env
        /\ ver' = [ver EXCEPT !.pc = @ + 1]
     \/ /\ ver.env
        /\ \E contains \in BOOLEAN :
             ver' = [ver EXCEPT !.pc = @ + 1,
                                !.passed = IF contains THEN @ + 1 ELSE @,
                                !.failed = IF contains THEN @ ELSE @ + 1,
                                !.nominal = @ /\ contains]
  /\ UNCHANGED <<db, last, pend, descs, berr, val, seed, res, track, poll>>

VerExit ==
  /\ ver.status = NoStatus
  /\ ver.pc = Step.exit
  /\ ver' = [ver EXCEPT !.status = ExitStatus(ver.failed)]
  /\ UNCHANGED <<db, last, pend, descs, berr, val, seed, res, track, poll>>

NextF ==
  \/ VerCheckJson
  \/ VerCheckFile
  \/ VerReadTables
  \/ VerCheckTable
  \/ VerCheckMarker
  \/ VerCheckContent
  \/ VerExit

SpecF == InitF /\ [][NextF]_vars

\* ------------------------------------------------------- voting on stories
InitQ ==
  /\ Fresh
  /\ val = NoVal
  /\ seed = NoSeed
  /\ res = NoRes
  /\ track = FALSE
  /\ ver = NoVer
  /\ poll = NoPoll

\* the dealer sets the current story: pending -> voting
PollSetCurrentStory ==
  /\ \E s \in Stories :
       /\ poll.status[s] = "pending"
       /\ poll' = StatusChanged(poll, s, "voting")
  /\ UNCHANGED <<db, last, pend, descs, berr, val, seed, res, track, ver>>

\* a participant who has not voted on the story creates a vote
PollCastVote ==
  /\ Len(poll.votes) < MaxVotes
  /\ \E s \in Stories, u \in Voters :
       /\ poll.status[s] = "voting"
       /\ ~HasUserVoted(poll, s, u)
       /\ poll' = VoteInserted(poll, s, u)
  /\ UNCHANGED <<db, last, pend, descs, berr, val, seed, res, track, ver>>

\* the dealer triggers the reveal: voting -> revealed
PollReveal ==
  /\ \E s \in Stories :
       /\ poll.status[s] = "voting"
       /\ poll' = StatusChanged(poll, s, "revealed")
  /\ UNCHANGED <<db, last, pend, descs, berr, val, seed, res, track, ver>>

\* the dealer triggers a re-vote of a revealed story
PollRevote ==
  /\ \E s \in Stories :
       /\ poll.status[s] = "revealed"
       /\ poll' = Revoted(poll, s)
  /\ UNCHANGED <<db, last, pend, descs, berr, val, seed, res, track, ver>>

\* the dealer sets the final score: revealed -> completed
PollComplete ==
  /\ \E s \in Stories :
       /\ poll.status[s] = "revealed"
       /\ poll' = StatusChanged(poll, s, "completed")
  /\ UNCHANGED <<db, last, pend, descs, berr, val, seed, res, track, ver>>

\* a story that is not estimated is skipped
PollSkip ==
  /\ \E s \in Stories :
       /\ poll.status[s] \in {"pending", "voting"}
       /\ poll' = StatusChanged(poll, s, "skipped")
  /\ UNCHANGED <<db, last, pend, descs, berr, val, seed, res, track, ver>>

NextQ ==
  \/ PollSetCurrentStory
  \/ PollCastVote
  \/ PollReveal
  \/ PollRevote
  \/ PollComplete
  \/ PollSkip

SpecQ == InitQ /\ [][NextQ]_vars

\* ------------------------------------------------- resolving field paths
InitP ==
  /\ Fresh
  /\ val = NoVal
  /\ seed = NoSeed
  /\ track = FALSE
  /\ ver = NoVer
  /\ poll = NoPoll
  /\ \E reg \in Registries : res = [NoRes EXCEPT !.reg = reg]

DoResolveFieldPath ==
  \E t \in SchemaTables, path \in Paths :
    /\ res.reg # <<>>
    /\ res' = [res EXCEPT !.table = t, !.path = path,
                          !.out = ResolveFieldPath(res.reg, t, path)]
    /\ UNCHANGED <<db, last, pend, descs, berr, val, seed, track, ver, poll>>

NextP == DoResolveFieldPath

SpecP == InitP /\ [][NextP]_vars

\* ---------------------------------------------------------- builder calls
\* descs holds the descriptors of one query expression: each entry is a
\* descriptor value and the chain of calls that produced it.
WhereArgs == {[field |-> "status", value |-> "active"], [field |-> "votes", value |-> 1]}
SelectArgs == {<<"status">>, <<"votes", "status">>}
AggregateArgs == {[fn |-> "count", field |-> ""], [fn |-> "sum", field |-> "votes"]}

CallRec(m, f, n) == [call |-> m, field |-> f, n |-> n]

\* faulty variant: the call changes the receiver in place and hands it back
Chained_InPlace(ds, h, b, c) ==
  Append([ds EXCEPT ![h] = [d |-> b.d, calls |-> Append(ds[h].calls, c)]],
         [d |-> b.d, calls |-> Append(ds[h].calls, c)])

\* a chain call hands back a new descriptor; the receiver stays as it was
Chained(ds, h, b, c) ==
  Append(ds, [d |-> b.d, calls |-> Append(ds[h].calls, c)])

BuilderCall(h, b, c) ==
  /\ berr' = [call |-> c.call, recv |-> h, err |-> b.err]
  /\ descs' = IF b.err = NoBuildError THEN Chained(descs, h, b, c) ELSE descs
  /\ UNCHANGED <<db, last, pend, tools>>

BFrom ==
  /\ descs = <<>>
  /\ descs' = <<[d |-> NewQuery(TableName), calls |-> <<>>]>>
  /\ berr' = [call |-> "from", recv |-> 0, err |-> NoBuildError]
  /\ UNCHANGED <<db, last, pend, tools>>

BWhere ==
  \E h \in DOMAIN descs, p \in WhereArgs :
    /\ Len(descs) < MaxDescs
    /\ BuilderCall(h, Where(descs[h].d, p.field, p.value), CallRec("where", p.field, 0))

BOrderBy ==
  \E h \in DOMAIN descs, desc \in BOOLEAN :
    /\ Len(descs) < MaxDescs
    /\ BuilderCall(h, OrderBy(descs[h].d, "votes", desc), CallRec("orderBy", "votes", 0))

BLimit ==
  \E h \in DOMAIN descs, n \in 1..MaxLimit :
    /\ Len(descs) < MaxDescs
    /\ BuilderCall(h, Limit(descs[h].d, n), CallRec("limit", "", n))

BSelect ==
  \E h \in DOMAIN descs, fields \in SelectArgs :
    /\ Len(descs) < MaxDescs
    /\ BuilderCall(h, Select(descs[h].d, fields), CallRec("select", "", Len(fields)))

BAggregate ==
  \E h \in DOMAIN descs, a \in AggregateArgs :
    /\ Len(descs) < MaxDescs
    /\ BuilderCall(h, Aggregate(descs[h].d, a.fn, a.field), CallRec("aggregate", a.field, 0))

NextB ==
  \/ BFrom
  \/ BWhere
  \/ BOrderBy
  \/ BLimit
  \/ BSelect
  \/ BAggregate

SpecB == Init /\ [][NextB]_vars

\* ================================================================ claims
SingleMutations == {"insertSafe", "updateSafe", "deleteSafe"}
Reads == {"getSafe", "query", "queryOrdered", "count", "aggregate"}
ValidMutationArgs(c) ==
  /\ c.table # NoTable
  /\ c.op \in {"updateSafe", "deleteSafe"} => c.key # NoKey
  /\ c.op \in {"insertSafe", "updateSafe"} => ~c.data.isNull

\* the table a single mutation request leaves when all of its writes land
Applied(c, t) ==
  IF c.op = "insertSafe" /\ ValidMutationArgs(c) THEN Inserted(t, c.data)
  ELSE IF c.op = "updateSafe" /\ ValidMutationArgs(c) /\ c.key \in KeysOf(t)
  THEN Updated(t, c.key, c.data)
  ELSE IF c.op = "deleteSafe" /\ ValidMutationArgs(c) /\ c.key \in KeysOf(t)
  THEN Deleted(t, c.key)
  ELSE t

RECURSIVE AllInserted(_, _)
AllInserted(t, items) ==
  IF items = <<>> THEN t
  ELSE AllInserted(Inserted(t, Head(items)), Tail(items))

\* C1 (as stated): whenever the backend raised an exception during a query
\* or mutation call, the value handed to the caller carries an error.
C1_FailureSurfaced ==
  last.out.threw => (last.out.error # NoError \/ last.out.errors # <<>>)

\* C1 (amended): a backend exception during insertSafe, updateSafe or
\* deleteSafe is reported as success=false with the exception's message
\* (batchInsert: success=false and an entry in errors); a backend exception
\* during getSafe, query, queryOrdered, count or aggregate is logged and the
\* call returns null, [], 0 or the initial value with no error attached.
C1_FailureReportedOrDefaulted ==
  last.out.threw =>
    /\ last.out.logged
    /\ last.call.op \in SingleMutations =>
         ~last.out.success /\ last.out.error = ErrBackend
    /\ last.call.op = "batchInsert" =>
         ~last.out.success /\ last.out.errors # <<>>
    /\ last.call.op \in Reads =>
         /\ last.out.error = NoError
         /\ last.out.rows = <<>>
         /\ last.out.num = (IF last.call.op = "aggregate" THEN last.call.initial ELSE 0)

\* a query over rows that match its filters came back empty because the
\* backend threw
C1_Witness ==
  /\ last.call.op = "query"
  /\ last.out.threw
  /\ Matching(last.before, last.call.filters) # {}
  /\ last.out.rows = <<>>

\* C2 (as stated): every mutation request, batchInsert included, leaves the
\* table either with all of its writes or as it was, and as it was whenever
\* it reports failure.
C2_AllOrNothing ==
  last.call.op \in SingleMutations \cup {"batchInsert"} =>
    /\ \/ last.out.db = last.before
       \/ last.out.db = Applied(last.call, last.before)
       \/ /\ last.call.op = "batchInsert"
          /\ last.out.db = AllInserted(last.before, last.call.records.items)
    /\ ~last.out.success => last.out.db = last.before

\* C2 (amended): one insertSafe, updateSafe or deleteSafe request is
\* all-or-nothing: on success the table holds exactly its write, on failure
\* the table is as it was.  batchInsert is not one unit: each record is
\* inserted or rejected on its own, the rows inserted stay in the table
\* also when the call reports failure, and inserted counts them.
C2_SingleMutationAtomic ==
  /\ last.call.op \in SingleMutations =>
       /\ last.out.success => last.out.db = Applied(last.call, last.before)
       /\ ~last.out.success => last.out.db = last.before
  /\ last.call.op = "batchInsert" =>
       /\ last.before.rows \subseteq last.out.db.rows
       /\ Cardinality(last.out.db.rows \ last.before.rows) = last.out.num

\* an updateSafe whose backend update threw on an existing row
C2_Witness ==
  /\ last.call.op = "updateSafe"
  /\ last.out.threw
  /\ last.call.key \in KeysOf(last.before)
  /\ last.out.ops = <<"selectOne", "update">>

\* C3: an updateSafe with valid arguments whose sysId names no row of the
\* table when the call starts ends with success=false, leaves the table as
\* it was (so it creates no row), and, unless the existence check itself
\* threw, reports 'Record not found'.
C3_UpdateMissingRow ==
  (/\ last.call.op = "updateSafe"
   /\ ValidMutationArgs(last.call)
   /\ last.call.key \notin KeysOf(last.start)) =>
    /\ ~last.out.success
    /\ last.out.db = last.before
    /\ ~last.out.threw => last.out.error = ErrNotFound

\* an updateSafe of a deleted row's sysId on a table that still has a row
C3_Witness ==
  /\ last.call.op = "updateSafe"
  /\ ValidMutationArgs(last.call)
  /\ last.call.key \notin KeysOf(last.start)
  /\ last.start.rows # {}
  /\ last.out.error = ErrNotFound

\* C4: a deleteSafe with valid arguments whose sysId names no row of the
\* table ends with success=false and leaves the table as it was; a deleteSafe
\* answers success=true only when the row existed and is gone afterwards.
C4_DeleteMissingRow ==
  last.call.op = "deleteSafe" =>
    /\ (ValidMutationArgs(last.call) /\ last.call.key \notin KeysOf(last.before)) =>
         ~last.out.success /\ last.out.error # NoError /\ last.out.db = last.before
    /\ last.out.success =>
         /\ last.call.key \in KeysOf(last.before)
         /\ last.call.key \notin KeysOf(last.out.db)
         /\ last.out.db.rows = last.before.rows \ {RowOf(last.before, last.call.key)}

\* a deleteSafe of a sysId that is not in a non-empty table
C4_Witness ==
  /\ last.call.op = "deleteSafe"
  /\ ValidMutationArgs(last.call)
  /\ last.call.key \notin KeysOf(last.before)
  /\ last.before.rows # {}
  /\ ~last.out.threw

\* C5 (as stated): a key-less update or delete is refused with
\* UnsafeBulkMutationError.
UnsafeBulkMutationError == "UnsafeBulkMutationError"
Satisfies(r, filters) ==
  \A i \in 1..Len(filters) : r[filters[i].field] = filters[i].value

RowsOf(sq) == {sq[i] : i \in DOMAIN sq}

RECURSIVE SumVotes(_)
SumVotes(S) ==
  IF S = {} THEN 0
  ELSE LET r == CHOOSE x \in S : TRUE IN r.votes + SumVotes(S \ {r})

\* C6: a query, count, aggregate or queryOrdered call that the backend
\* answers puts one predicate per key of the filters object on its query, and
\* its result is made of exactly the rows of the table that satisfy every
\* filter (all rows when there is no filter); queryOrdered's limit alone may
\* cut that result short.
C6_FiltersAndCombined ==
  (/\ last.call.op \in {"query", "count", "aggregate", "queryOrdered"}
   /\ last.call.table # NoTable
   /\ last.call.isFn
   /\ ~last.out.threw) =>
    LET sat == {r \in last.before.rows : Satisfies(r, last.call.filters)}
    IN /\ Len(last.out.desc.preds) = Len(last.call.filters)
       /\ last.call.filters = <<>> => sat = last.before.rows
       /\ last.call.op = "query" =>
            /\ RowsOf(last.out.rows) = {Project(r, last.call.fields) : r \in sat}
            /\ Len(last.out.rows) = Cardinality(sat)
       /\ last.call.op = "count" => last.out.num = Cardinality(sat)
       /\ last.call.op = "aggregate" =>
            last.out.num = last.call.initial + SumVotes(sat)
       /\ last.call.op = "queryOrdered" =>
            /\ RowsOf(last.out.rows) \subseteq sat
            /\ Len(last.out.rows) =
                 (IF last.call.limit > 0 /\ last.call.limit < Cardinality(sat)
                  THEN last.call.limit ELSE Cardinality(sat))

\* a query with two filters that returned some rows of the table and left
\* another out
C6_Witness ==
  /\ last.call.op = "query"
  /\ ~last.out.threw
  /\ Len(last.call.filters) = 2
  /\ last.out.rows # <<>>
  /\ Len(last.out.rows) < Cardinality(last.before.rows)

RECURSIVE LastLimit(_)
LastLimit(calls) ==
  IF calls = <<>> THEN NoLimit
  ELSE IF calls[Len(calls)].call = "limit" THEN calls[Len(calls)].n
  ELSE LastLimit(SubSeq(calls, 1, Len(calls) - 1))

CountCalls(calls, m) == Cardinality({i \in DOMAIN calls : calls[i].call = m})

\* C7: after any chain of builder calls a descriptor carries one bound, the
\* argument of the last limit call of its chain (unbounded when there was
\* none), and one predicate per where call of the chain; no limit call
\* raises an error.
C7_LimitOverwrites ==
  /\ \A i \in DOMAIN descs :
       /\ descs[i].d.lim = LastLimit(descs[i].calls)
       /\ Len(descs[i].d.preds) = CountCalls(descs[i].calls, "where")
  /\ berr.call = "limit" => berr.err = NoBuildError

\* a chain with two limit calls of different bounds and a where call
C7_Witness ==
  \E i \in DOMAIN descs :
    \E j, k \in DOMAIN descs[i].calls :
      /\ j < k
      /\ descs[i].calls[j].call = "limit"
      /\ descs[i].calls[k].call = "limit"
      /\ descs[i].calls[j].n # descs[i].calls[k].n
      /\ CountCalls(descs[i].calls, "where") >= 1

C9_BuilderPure ==
  [][\A h \in DOMAIN descs : h \in DOMAIN descs' /\ descs'[h] = descs[h]]_vars

IsContinuation(e, tmpl) ==
  /\ Len(e.calls) = Len(tmpl.calls) + 1
  /\ SubSeq(e.calls, 1, Len(tmpl.calls)) = tmpl.calls

\* a partially built query (a where call made) continued in two different
\* ways
C9_Witness ==
  \E h, i, j \in DOMAIN descs :
    /\ descs[h].calls # <<>>
    /\ IsContinuation(descs[i], descs[h])
    /\ IsContinuation(descs[j], descs[h])
    /\ descs[i].d # descs[j].d
    /\ descs[h].d.preds # <<>>
    /\ descs[h].d.lim = NoLimit /\ descs[i].d.lim # NoLimit
    /\ descs[j].d.lim = NoLimit

InvalidArgs(c) ==
  \/ c.table = NoTable
  \/ c.op \in {"updateSafe", "deleteSafe", "getSafe"} /\ c.key = NoKey
  \/ c.op \in {"insertSafe", "updateSafe"} /\ c.data.isNull
  \/ c.op = "aggregate" /\ ~c.isFn
  \/ c.op = "batchInsert" /\ ~c.records.isArray

C13_GetByKey ==
  (/\ last.call.op = "getSafe"
   /\ last.call.table # NoTable
   /\ last.call.key # NoKey
   /\ ~last.out.threw)
  => /\ last.out.rows =
          (IF last.call.key \in KeysOf(last.before)
           THEN <<Project(RowOf(last.before, last.call.key), last.call.fields)>>
           ELSE <<>>)
     /\ last.out.error = NoError
     /\ ~last.out.logged
     /\ ~last.out.warned

\* getSafe of a key whose row was deleted, on a table that still holds a row
C13_Witness ==
  /\ last.call.op = "getSafe"
  /\ last.call.table # NoTable
  /\ last.call.key # NoKey
  /\ ~last.out.threw
  /\ last.call.key \notin KeysOf(last.before)
  /\ last.call.key <= last.before.issued
  /\ last.before.rows # {}
  /\ last.out.rows = <<>>

\* C14: count returns the number of rows of the table, as it is when count
\* runs, that satisfy every filter; it returns no rows and changes none
C14_CountMatchesRows ==
  (/\ last.call.op = "count"
   /\ last.call.table # NoTable
   /\ ~last.out.threw)
  => /\ last.out.num =
          Cardinality({r \in last.before.rows : Satisfies(r, last.call.filters)})
     /\ last.out.rows = <<>>
     /\ db = last.before

\* five rows, three of them active: count where status = active gives 3
C14_Witness ==
  /\ last.call.op = "count"
  /\ last.call.filters = <<[field |-> "status", value |-> "active"]>>
  /\ ~last.out.threw
  /\ Cardinality(last.before.rows) = 5
  /\ Cardinality({r \in last.before.rows : r.status = "active"}) = 3
  /\ last.out.num = 3

\* C15: a plain field name, and a one-hop path whose first segment is a
\* reference field, resolve to the FieldDef named by the trailing segment
\* (declared on the table itself, or on the referenced table for a one-hop
\* path) whenever that table has such a field; a path with two or more hops,
\* and a one-hop path whose first segment is not a reference field, resolve
\* to no FieldDef: UnknownFieldError
C15_FieldPathResolution ==
  res.path # <<>> =>
    LET n == Len(res.path)
        first == res.reg[res.table][res.path[1]]
        owner == IF n = 1 THEN res.table ELSE first
    IN /\ n > 2 => res.out = Unknown
       /\ (n = 2 /\ first \notin SchemaTables) => res.out = Unknown
       /\ res.out.err \in {NoBuildError, UnknownFieldError}
       /\ res.out.err = NoBuildError =>
            /\ res.out.def.name = res.path[n]
            /\ res.out.def.on = owner
            /\ res.out.def.type # Absent
       /\ (n = 1 \/ (n = 2 /\ first \in SchemaTables)) =>
            (res.out.err = NoBuildError <=> res.reg[owner][res.path[n]] # Absent)

\* a two-hop path every hop of which is a reference field, refused
C15_Witness ==
  /\ Len(res.path) = 3
  /\ res.reg[res.table][res.path[1]] \in SchemaTables
  /\ res.reg[res.reg[res.table][res.path[1]]][res.path[2]] \in SchemaTables
  /\ res.reg[res.reg[res.reg[res.table][res.path[1]]][res.path[2]]][res.path[3]]
       # Absent
  /\ res.out.err = UnknownFieldError

\* C17: once every table file of the batch is validated, a batch in which
\* some reference field names a table that no file of the batch declares is
\* reported invalid
C17_UnresolvedReferenceReported ==
  (/\ val.pc \in {"returned", "exited"}
   /\ val.refs \ val.declared # {})
  => val.result = "failed"

\* C18: a table file holding two fields of the same name has an error
\* recorded for it as soon as it is validated, and the validation that read
\* it ends in failure, never in acceptance
C18_DuplicateFieldRejected ==
  /\ \A f \in val.dups : \E k \in DOMAIN val.errors : val.errors[k].file = f
  /\ (val.dups # {} /\ val.pc \in {"returned", "exited"}) => val.result = "failed"
  /\ val.dups # {} => val.pc # "returned"

\* a batch whose only defect is a duplicate field name ended in failure
C18_Witness ==
  /\ val.pc = "exited"
  /\ val.dups # {}
  /\ val.files = 2
  /\ Len(val.errors) = 1
  /\ val.errors[1].msg = ErrDuplicateField

\* C16: no stored row holds a dangling reference: the scoring_method of every
\* scoring value row is the sys_id of an existing scoring method row, and no
\* write of a reference to a missing row succeeds
C16_NoDanglingReference ==
  /\ \A r \in seed.values.rows : r.scoring_method \in KeysOf(seed.methods)
  /\ seed.helper.success => seed.helper.ref \in KeysOf(seed.methods)

\* the states of a mutation request, read off a finished call: Validated when
\* the argument test passed and, for updateSafe, the existence check found
\* the row; Executed when a write operation was issued to the backend;
\* Committed when the call answers success, Failed when it answers an error
WriteOps == {"insert", "update", "deleteRecord"}
Validated(l) ==
  /\ ValidMutationArgs(l.call)
  /\ l.call.op = "updateSafe" =>
       (l.call.key \in KeysOf(l.start) /\ Len(l.out.ops) = 2)
Executed(l) == \E k \in DOMAIN l.out.ops : l.out.ops[k] \in WriteOps
Committed(l) == l.out.success
Failed(l) == ~l.out.success /\ l.out.error # NoError

\* C19: an insertSafe, updateSafe or deleteSafe call issues a write only
\* after its validation passed and as its last backend operation; a call
\* whose validation fails issues no write and changes no row; and every call
\* ends in exactly one of Committed and Failed, Committed only after a
\* write. An updateSafe between its existence check and its write is
\* Validated and has written nothing.
C19_MutationLifecycle ==
  /\ last.call.op \in SingleMutations =>
       /\ Executed(last) => Validated(last)
       /\ \A k \in DOMAIN last.out.ops :
            last.out.ops[k] \in WriteOps => k = Len(last.out.ops)
       /\ ~Validated(last) =>
            (~Executed(last) /\ Failed(last) /\ last.out.db = last.before)
       /\ Committed(last) => Executed(last)
       /\ Committed(last) <=> ~Failed(last)
       /\ Failed(last) => last.out.sysId = NoKey
  /\ pend.active =>
       /\ pend.table # NoTable /\ pend.key # NoKey /\ ~pend.data.isNull
       /\ pend.key \in KeysOf(pend.start)

\* an updateSafe that passed its existence check and whose write failed:
\* Built, Validated, Executed, Failed
C19_Witness ==
  /\ last.call.op = "updateSafe"
  /\ Validated(last)
  /\ Executed(last)
  /\ Failed(last)
  /\ last.out.ops = <<"selectOne", "update">>
  /\ ~pend.active

\* C20: a first run of the seed script on an instance with no scoring
\* method, none of whose inserts failed, has created 4 scoring methods and
\* 38 scoring values and returns methods_created = 4, values_created = 38
C20_SeedCreatesAll ==
  (seed.pc = "done" /\ seed.run = 1 /\ seed.fails = 0)
  => /\ Cardinality(seed.methods.rows) = 4
     /\ Cardinality(seed.values.rows) = 38
     /\ seed.ret = [success |-> TRUE, methods_created |-> 4, values_created |-> 38]

\* the first run has returned with no failed insert
C20_Witness ==
  /\ seed.pc = "done"
  /\ seed.run = 1
  /\ seed.fails = 0
  /\ seed.ret.success
  /\ seed.ret.values_created = 38

\* the rows of the scoring methods with is_default set, and the values of a
\* method row in ascending order of their order field
DefaultMethods == {m \in seed.methods.rows : m.is_default}
ValuesOf(m) == {r \in seed.values.rows : r.scoring_method = m.sys_id}
Ascending(vs) ==
  [k \in 1..Cardinality(vs) |->
     (CHOOSE r \in vs : Cardinality({q \in vs : q.order <= r.order}) = k).value]

C22_VerificationExit ==
  ver.status # NoStatus =>
    /\ ver.status = 0 <=> (ver.pc = Step.exit /\ ver.failed = 0)
    /\ ver.status \in {0, 1}
    /\ (ver.pc = Step.exit /\ ver.nominal /\ ver.tables = 7) =>
         (ver.passed = 21 /\ ver.failed = 0 /\ ver.status = 0)

\* the script ended on an application that meets every check, 7 tables
C22_Witness ==
  /\ ver.status = 0
  /\ ver.pc = Step.exit
  /\ ver.nominal
  /\ ver.tables = 7
  /\ ver.passed = 21

\* C23: after any sequence of vote inserts, re-votes and status changes,
\* total_votes equals the number of the session's votes with is_current =
\* true and every story's vote_count equals the number of that story's votes
\* with is_current = true (violated: a re-vote marks votes old and no rule
\* lowers the two fields)
C23_SummaryFieldsMatchCounts ==
  /\ poll.total_votes = Cardinality(AllCurrent(poll))
  /\ \A s \in Stories : poll.vote_count[s] = Cardinality(CurrentVotes(poll, s))

\* C24: a (story, voter) pair has at most one current vote; the current
\* votes of a story carry one sequence, one higher than the highest
\* sequence of its old votes; the sequences of a story have no gap, so
\* times_revoted counts its earlier rounds; no step deletes or rewrites a
\* vote, and a re-vote leaves the story without a current vote
C24_OneCurrentVote ==
  \A s \in Stories :
    /\ \A u \in Voters :
         Cardinality({i \in CurrentVotes(poll, s) : poll.votes[i].voter = u}) <= 1
    /\ \A i \in CurrentVotes(poll, s) :
         /\ poll.votes[i].vote_sequence = MaxSequence(poll, s)
         /\ \A j \in VotesOf(poll, s) \ CurrentVotes(poll, s) :
              poll.votes[j].vote_sequence < poll.votes[i].vote_sequence
    /\ {poll.votes[i].vote_sequence : i \in VotesOf(poll, s)}
         = 1..MaxSequence(poll, s)
    /\ VotesOf(poll, s) # {} =>
         TimesRevoted(poll, s)
           = Cardinality({poll.votes[i].vote_sequence : i \in VotesOf(poll, s)}) - 1

C24_HistoryKept ==
  /\ Len(poll'.votes) >= Len(poll.votes)
  /\ \A i \in DOMAIN poll.votes :
       /\ poll'.votes[i].session_story = poll.votes[i].session_story
       /\ poll'.votes[i].voter = poll.votes[i].voter
       /\ poll'.votes[i].vote_sequence = poll.votes[i].vote_sequence
       /\ poll'.votes[i].is_current => poll.votes[i].is_current
  /\ \A s \in Stories :
       (poll.status[s] = "revealed" /\ poll'.status[s] = "voting") =>
         CurrentVotes(poll', s) = {}

C25_BatchInsertAccounting ==
  (/\ last.call.op = "batchInsert"
   /\ last.call.table # NoTable
   /\ last.call.records.isArray) =>
    LET items == last.call.records.items
        errors == last.out.errors
    IN /\ last.out.num + Len(errors) = Len(items)
       /\ last.before.rows \subseteq last.out.db.rows
       /\ last.out.num = Cardinality(last.out.db.rows) - Cardinality(last.before.rows)
       /\ last.out.success <=> errors = <<>>
       /\ Len(items) = 0 => (last.out.success /\ last.out.num = 0)
       /\ \A e \in DOMAIN errors : errors[e].index \in 0..(Len(items) - 1)
       /\ \A e, f \in DOMAIN errors : e < f => errors[e].index < errors[f].index
       /\ \A i \in DOMAIN items :
            items[i].isNull => \E e \in DOMAIN errors : errors[e].index = i - 1
       /\ Len(last.out.ops) = Cardinality({i \in DOMAIN items : ~items[i].isNull})

\* the first record of a batch failed and the second was inserted
C25_Witness ==
  /\ last.call.op = "batchInsert"
  /\ Len(last.call.records.items) = 2
  /\ Len(last.out.errors) = 1
  /\ last.out.errors[1].index = 0
  /\ last.out.num = 1
  /\ ~last.out.success

\* C27: a queryOrdered that the backend answers returns matching records
\* only, each once; with orderBy they are sorted by it, descending when the
\* flag is set; with limit n > 0 there are at most n of them and no record
\* left out sorts before a returned one; with limit 0 or negative every
\* matching record is returned and nothing is logged
C27_OrderedLimit ==
  (/\ last.call.op = "queryOrdered"
   /\ last.call.table # NoTable
   /\ ~last.out.threw) =>
    LET rows == last.out.rows
        M == Matching(last.before, last.call.filters)
        n == last.call.limit
        got == {rows[i] : i \in DOMAIN rows}
        Le(a, b) == IF last.call.descending THEN a.votes >= b.votes
                    ELSE a.votes <= b.votes
    IN /\ got \subseteq M
       /\ Cardinality(got) = Len(rows)
       /\ last.call.orderBy # "" =>
            \A i, j \in DOMAIN rows : i < j => Le(rows[i], rows[j])
       /\ n > 0 =>
            /\ Len(rows) = (IF Cardinality(M) < n THEN Cardinality(M) ELSE n)
            /\ last.call.orderBy # "" =>
                 \A r \in M \ got : \A i \in DOMAIN rows : Le(rows[i], r)
       /\ n <= 0 => got = M
       /\ ~last.out.logged /\ last.out.error = NoError

\* a descending queryOrdered with limit 1 over two rows of different votes
\* returned the row with the most votes
C27_Witness ==
  /\ last.call.op = "queryOrdered"
  /\ last.call.orderBy = "votes"
  /\ last.call.descending
  /\ last.call.limit = 1
  /\ Len(last.out.rows) = 1
  /\ \E r \in Matching(last.before, last.call.filters) :
       r.votes < last.out.rows[1].votes

\* C28: an updateSafe answers success only for a row that is in the table
\* when the update is issued; when the row it found in its existence check
\* was deleted before the update, it answers failure, the table stays as
\* the delete left it and the row is not created again
C28_UpdateAfterDelete ==
  last.call.op = "updateSafe" =>
    /\ last.out.success =>
         /\ last.call.key \in KeysOf(last.before)
         /\ last.call.key \in KeysOf(last.out.db)
    /\ (last.call.key \in KeysOf(last.start)
        /\ last.call.key \notin KeysOf(last.before)) =>
         /\ ~last.out.success
         /\ last.out.error # NoError
         /\ last.out.db = last.before
         /\ last.call.key \notin KeysOf(db)

\* an updateSafe found its row, the row was deleted, the update failed
C28_Witness ==
  /\ last.call.op = "updateSafe"
  /\ last.call.key \in KeysOf(last.start)
  /\ last.call.key \notin KeysOf(last.before)
  /\ ~last.out.threw
  /\ ~last.out.success

\* C29: every result of insertSafe, updateSafe and deleteSafe has success
\* exactly when error is null; an insertSafe that succeeds returns the
\* sysId of a row that was not in the table and now is, one that fails
\* returns sysId null
C29_ResultShape ==
  last.call.op \in SingleMutations =>
    /\ last.out.success <=> last.out.error = NoError
    /\ last.call.op = "insertSafe" =>
         /\ last.out.success =>
              /\ last.out.sysId # NoKey
              /\ last.out.sysId \in KeysOf(last.out.db) \ KeysOf(last.before)
              /\ last.out.db.rows \ last.before.rows
                   = {RowOf(last.out.db, last.out.sysId)}
         /\ ~last.out.success => last.out.sysId = NoKey
    /\ last.call.op # "insertSafe" => last.out.sysId = NoKey

\* an insertSafe without data on a table that has a row: refused with an
\* error and no sysId
C29_Witness ==
  /\ last.call.op = "insertSafe"
  /\ last.call.table # NoTable
  /\ last.call.data.isNull
  /\ last.before.rows # {}
  /\ last.out.error = ErrMissingInsert
  /\ last.out.sysId = NoKey

\* the sum of the votes of a set of rows
RECURSIVE VoteSum(_)
VoteSum(S) ==
  IF S = {} THEN 0
  ELSE LET r == CHOOSE x \in S : TRUE IN r.votes + VoteSum(S \ {r})

====
